---- MODULE Spec2Model ----
(***************************************************************************)
(* Supply Chain Resilience Commander V3.2 (src/app.py).                    *)
(*                                                                         *)
(* The game is a Streamlit script: every user event (a form entry, the     *)
(* form's submit button, a sidebar button) reruns the script against       *)
(* st.session_state.  The variables are the session state and the form's   *)
(* widget values; each action is one rerun with one event.  The two random *)
(* sources (np.random.normal in get_demand, random.choice in               *)
(* update_market_price) are nondeterministic choices.                      *)
(***************************************************************************)
EXTENDS Integers, Sequences, FiniteSets, TLC

\* --- Configuration & Constants (src/app.py:6-28) ---
MAX_WEEKS == 20
INITIAL_CASH == 10000
INITIAL_INVENTORY == 50
UNIT_SELLING_PRICE == 100
INITIAL_MARKET_PRICE == 60
HOLDING_COST == 5
SHORTAGE_PENALTY == 10
WAREHOUSE_CAPACITY == 120
OVERFLOW_PENALTY == 50
MARKET_INTEL_COST == 500
UPSTREAM_CAPACITY == 60
SEA_FREIGHT_COST == 2
AIR_FREIGHT_COST == 15
KPI_START == 100
KPI_PENALTY_THRESHOLD_YELLOW == 70
KPI_PENALTY_THRESHOLD_RED == 50
KPI_FINE_YELLOW == 500
KPI_FINE_RED == 2000

\* --- Bounds of the exploration ---
\* At most MaxEvents events per run that are not a submit with the typical
\* draws: a form entry, a sidebar/game-over button click, a demand draw other
\* than the mean, a non-zero step of the price walk.
MaxEvents == 2

\* Weeks played in the price-walk specification: enough turns for the walk
\* to run from 60 into either end of its band and be clamped there.
MaxWalkWeeks == 7

\* Values typed into the quantity box; -1 and 501 lie outside [0, 500].
QtyEntries == {-1, 0, 20, 80, 501}
\* Values of int(np.random.normal(20, 5)): a negative draw, the mean, a high one.
NormalDraws == {-5, 20, 60}
\* random.choice([-5, 0, 5])
PriceChanges == {-5, 0, 5}
ShipModes == {"sea", "air"}

VARIABLES
    \* st.session_state
    week, cash, inventory, market_price, sea_lead_time_base, market_intel,
    game_over, kpi_score, upstream_congestion, history, pending_orders,
    last_week_metrics,
    \* order_form widgets: committed value of the number input, the radio
    order_qty, ship_mode,
    \* history variables of the verification (not program state)
    enqueued_total,   \* total qty appended to pending_orders since init_game
    arrivals_log,     \* 'arrivals' of every processed turn, in order
    intel_week,       \* value of week when market intel was bought, 0 if not
    refused_entry,    \* {q} if the last event was the entry q and the number
                      \* input refused it, {} after any other event
    reset_from,       \* {summary of the state init_game overwrote} if the last
                      \* event was a reset or play-again click, else {}
    events            \* events spent against MaxEvents

gameVars == <<week, cash, inventory, market_price, sea_lead_time_base,
              market_intel, game_over, kpi_score, upstream_congestion,
              history, pending_orders, last_week_metrics>>
formVars == <<order_qty, ship_mode>>
logVars == <<enqueued_total, arrivals_log, intel_week>>
vars == <<gameVars, formVars, logVars, refused_entry, reset_from, events>>

\* --- helpers: Python built-ins ---
Min(a, b) == IF a < b THEN a ELSE b
Max(a, b) == IF a > b THEN a ELSE b

RECURSIVE SumSeq(_)
SumSeq(s) == IF s = <<>> THEN 0 ELSE Head(s) + SumSeq(Tail(s))

RECURSIVE SumQty(_)
SumQty(s) == IF s = <<>> THEN 0 ELSE Head(s).qty + SumQty(Tail(s))

\* --- init_game (src/app.py:32-53) ---
\* Mutant: the reset leaves the sea lead time as it is.
init_game_keeps_lead_time ==
    /\ week' = 1
    /\ cash' = INITIAL_CASH
    /\ inventory' = INITIAL_INVENTORY
    /\ market_price' = INITIAL_MARKET_PRICE
    /\ sea_lead_time_base' = sea_lead_time_base
    /\ market_intel' = FALSE
    /\ game_over' = FALSE
    /\ kpi_score' = KPI_START
    /\ upstream_congestion' = FALSE
    /\ history' = <<>>
    /\ pending_orders' = <<>>
    /\ last_week_metrics' = <<>>
    /\ enqueued_total' = 0
    /\ arrivals_log' = <<>>
    /\ intel_week' = 0

init_game ==
    /\ week' = 1
    /\ cash' = INITIAL_CASH
    /\ inventory' = INITIAL_INVENTORY
    /\ market_price' = INITIAL_MARKET_PRICE
    /\ sea_lead_time_base' = 2
    /\ market_intel' = FALSE
    /\ game_over' = FALSE
    /\ kpi_score' = KPI_START
    /\ upstream_congestion' = FALSE
    /\ history' = <<>>
    /\ pending_orders' = <<>>
    /\ last_week_metrics' = <<>>
    /\ enqueued_total' = 0
    /\ arrivals_log' = <<>>
    /\ intel_week' = 0

\* First script run: 'week' not in st.session_state, so init_game() runs; the
\* form shows its defaults (value=20, index=0).
Init ==
    /\ week = 1
    /\ cash = INITIAL_CASH
    /\ inventory = INITIAL_INVENTORY
    /\ market_price = INITIAL_MARKET_PRICE
    /\ sea_lead_time_base = 2
    /\ market_intel = FALSE
    /\ game_over = FALSE
    /\ kpi_score = KPI_START
    /\ upstream_congestion = FALSE
    /\ history = <<>>
    /\ pending_orders = <<>>
    /\ last_week_metrics = <<>>
    /\ order_qty = 20
    /\ ship_mode = "sea"
    /\ refused_entry = {}
    /\ reset_from = {}
    /\ enqueued_total = 0
    /\ arrivals_log = <<>>
    /\ intel_week = 0
    /\ events = 0

\* --- get_demand (src/app.py:55-64); z is int(np.random.normal(20, 5)) ---
get_demand(w, z) ==
    LET demand == Max(0, z)
    IN  IF w = 8 THEN demand + 15 ELSE demand

\* --- update_market_price (src/app.py:66-70) ---
\* Mutant: the walk is not clamped to the band.
update_market_price_unclamped(current_price, change) == current_price + change

update_market_price(current_price, change) ==
    LET new_price == current_price + change
    IN  Max(40, Min(90, new_price))

\* --- check_events (src/app.py:72-81): the sea_lead_time_base it leaves ---
\* Mutant: the event lengthens the lead time by a week instead of setting it.
check_events_increment(w, base) == IF w = 12 THEN base + 1 ELSE base

check_events(w, base) == IF w = 12 THEN 3 ELSE base

\* --- process_turn, step 3 (src/app.py:95-97) ---
arrivals_of(orders, current_week) ==
    SumQty(SelectSeq(orders, LAMBDA o: o.arrival_week = current_week))

\* Mutant: the filter keeps the orders due this week (>= for >).
remaining_orders_keep_due(orders, current_week) ==
    SelectSeq(orders, LAMBDA o: o.arrival_week >= current_week)

remaining_orders(orders, current_week) ==
    SelectSeq(orders, LAMBDA o: o.arrival_week > current_week)

\* --- step 5 (src/app.py:103) ---
\* Mutant: sells the whole demand, whatever is in stock.
sales_of_unbounded(demand, available_inventory) == demand

sales_of(demand, available_inventory) == Min(demand, available_inventory)

\* --- step 6 (src/app.py:107-114) ---
\* Mutant: the score is not clamped.
kpi_update_unclamped(score, missed_sales) ==
    score + (IF missed_sales > 0 THEN -5 ELSE 2)

kpi_update(score, missed_sales) ==
    LET kpi_change == IF missed_sales > 0 THEN -5 ELSE 2
    IN  Max(0, Min(100, score + kpi_change))

\* --- step 7 (src/app.py:116-145) ---
shipping_cost_unit(mode) ==
    IF mode = "sea" THEN SEA_FREIGHT_COST ELSE AIR_FREIGHT_COST

\* Mutant: the freight is left out of the procurement cost.
procurement_cost_no_freight(qty, price, mode) == qty * price

procurement_cost_of(qty, price, mode) == qty * (price + shipping_cost_unit(mode))

\* Mutant: the penalty is charged on the whole ending inventory.
overflow_penalty_on_total(ending_inventory) ==
    IF ending_inventory > WAREHOUSE_CAPACITY
    THEN ending_inventory * OVERFLOW_PENALTY ELSE 0

overflow_penalty_of(ending_inventory) ==
    IF ending_inventory > WAREHOUSE_CAPACITY
    THEN (ending_inventory - WAREHOUSE_CAPACITY) * OVERFLOW_PENALTY
    ELSE 0

\* Mutant: the fine is assessed on the score the turn started with.
score_before_update(old_score, new_score) == old_score

\* The fine reads st.session_state.kpi_score at line 138, after line 114 has
\* stored the updated score.
score_for_fine(old_score, new_score) == new_score

kpi_fine_of(score) ==
    IF score < KPI_PENALTY_THRESHOLD_RED THEN KPI_FINE_RED
    ELSE IF score < KPI_PENALTY_THRESHOLD_YELLOW THEN KPI_FINE_YELLOW
    ELSE 0

weekly_profit_of(revenue, procurement_cost, holding_cost_total, shortage_penalty, overflow_penalty, kpi_fine) ==
    revenue - procurement_cost - holding_cost_total - shortage_penalty
        - overflow_penalty - kpi_fine

\* --- step 8 (src/app.py:148) ---
\* Mutant: = for +=.
settle_cash_assign(c, weekly_profit) == weekly_profit

settle_cash(c, weekly_profit) == c + weekly_profit

\* --- step 9 (src/app.py:154-172) ---
\* Mutant: the congestion penalty is forgotten.
lead_time_no_congestion(mode, base, congestion) ==
    IF mode = "air" THEN 1 ELSE base

lead_time_of(mode, base, congestion) ==
    LET current_sea_lt == IF congestion THEN base + 1 ELSE base
    IN  IF mode = "air" THEN 1 ELSE current_sea_lt

\* Mutant: an order of nothing is shipped too.
place_order_unguarded(orders, arrival_week, qty) ==
    Append(orders, [arrival_week |-> arrival_week, qty |-> qty])

place_order(orders, arrival_week, qty) ==
    IF qty > 0
    THEN Append(orders, [arrival_week |-> arrival_week, qty |-> qty])
    ELSE orders

\* Mutant: only a sea order congests the upstream.
next_congestion_sea_only(qty) == qty > UPSTREAM_CAPACITY /\ ship_mode = "sea"

next_congestion(qty) == qty > UPSTREAM_CAPACITY

\* The procurement cost reads st.session_state.market_price at line 121,
\* before line 152 stores the walked price.
\* Mutant: the price is walked before the cost is computed.
price_after_walk(old_price, new_price) == new_price

price_for_procurement(old_price, new_price) == old_price

\* --- step 11 (src/app.py:197-200) ---
\* Mutant: the week is advanced twice.
week_advanced_twice(w) == w + 2

advance_week(w) == w + 1

\* Mutant: >= for >, the game ends one week early.
horizon_reached(w) == w >= MAX_WEEKS

horizon_passed(w) == w > MAX_WEEKS

\* --- process_turn (src/app.py:83-200) ---
\* z and change are the two random draws of the turn.
process_turn(oq, sm, z, change) ==
    LET current_week == week
        base == check_events(current_week, sea_lead_time_base)
        demand == get_demand(current_week, z)
        arrivals == arrivals_of(pending_orders, current_week)
        remaining == remaining_orders(pending_orders, current_week)
        available_inventory == inventory + arrivals
        sales == sales_of(demand, available_inventory)
        missed_sales == demand - sales
        ending_inventory == available_inventory - sales
        new_kpi == kpi_update(kpi_score, missed_sales)
        revenue == sales * UNIT_SELLING_PRICE
        new_price == update_market_price(market_price, change)
        procurement_cost ==
            procurement_cost_of(oq, price_for_procurement(market_price, new_price), sm)
        holding_cost_total == ending_inventory * HOLDING_COST
        shortage_penalty == missed_sales * SHORTAGE_PENALTY
        overflow_penalty == overflow_penalty_of(ending_inventory)
        kpi_fine == kpi_fine_of(score_for_fine(kpi_score, new_kpi))
        weekly_profit == weekly_profit_of(revenue, procurement_cost,
                             holding_cost_total, shortage_penalty,
                             overflow_penalty, kpi_fine)
        new_cash == settle_cash(cash, weekly_profit)
        lead_time == lead_time_of(sm, base, upstream_congestion)
        arrival_week == current_week + lead_time
        record ==
            ("Week" :> current_week) @@ ("Demand" :> demand)
            @@ ("Order Qty" :> oq) @@ ("Market Price" :> new_price)
            @@ ("Ship Mode" :> IF sm = "air" THEN "Air" ELSE "Sea")
            @@ ("Sales" :> sales) @@ ("Missed Sales" :> missed_sales)
            @@ ("Ending Inv" :> ending_inventory) @@ ("KPI Score" :> new_kpi)
            @@ ("Revenue" :> revenue)
            @@ ("Procurement Cost" :> procurement_cost)
            @@ ("Holding Cost" :> holding_cost_total)
            @@ ("Shortage Penalty" :> shortage_penalty)
            @@ ("Overflow Penalty" :> overflow_penalty)
            @@ ("KPI Fine" :> kpi_fine) @@ ("Net Profit" :> weekly_profit)
            @@ ("Cash" :> new_cash)
    IN  /\ sea_lead_time_base' = base
        /\ pending_orders' = place_order(remaining, arrival_week, oq)
        /\ kpi_score' = new_kpi
        /\ cash' = new_cash
        /\ inventory' = ending_inventory
        /\ market_price' = new_price
        /\ upstream_congestion' = next_congestion(oq)
        /\ history' = Append(history, record)
        /\ last_week_metrics' = <<record>>
        /\ week' = advance_week(current_week)
        /\ game_over' = IF horizon_passed(advance_week(current_week))
                        THEN TRUE ELSE game_over
        /\ market_intel' = market_intel
        /\ arrivals_log' = Append(arrivals_log, arrivals)
        /\ enqueued_total' = enqueued_total + (IF oq > 0 THEN oq ELSE 0)
        /\ intel_week' = intel_week

\* --- UI (src/app.py:204-375) ---
\* The game-over screen ends the script with st.stop() before the order form
\* is built: the form and its submit button exist only while the game runs.
\* Mutant: no st.stop(), the form is built on the game-over screen too.
form_always_rendered == TRUE

form_rendered == ~game_over

\* st.number_input(min_value=0, max_value=500): an entry outside the range is
\* not committed, the widget keeps its value.
\* Mutant: no min_value / max_value.
number_input_unchecked(current, entry) == entry

number_input(current, entry) ==
    IF 0 <= entry /\ entry <= 500 THEN entry ELSE current

\* Expected arrival shown in the order form (src/app.py:361-367), the same
\* figure as the sidebar's (src/app.py:232-238): read from the session state
\* as it is when the form is built, before the submit is processed.
current_lt ==
    LET base == sea_lead_time_base
        congestion == IF upstream_congestion THEN 1 ELSE 0
        sea_time == base + congestion
    IN  IF ship_mode = "sea" THEN sea_time ELSE 1

\* Draws other than the mean demand and the zero price step are counted.
DrawCost(z, change) ==
    (IF z = 20 THEN 0 ELSE 1) + (IF change = 0 THEN 0 ELSE 1)

EnterQty(q) ==
    /\ form_rendered
    /\ events < MaxEvents
    /\ q # order_qty
    /\ order_qty' = number_input(order_qty, q)
    /\ refused_entry' = IF number_input(order_qty, q) = q THEN {} ELSE {q}
    /\ reset_from' = {}
    /\ events' = events + 1
    /\ UNCHANGED <<gameVars, ship_mode, logVars>>

SelectMode(m) ==
    /\ form_rendered
    /\ events < MaxEvents
    /\ m # ship_mode
    /\ ship_mode' = m
    /\ refused_entry' = {}
    /\ reset_from' = {}
    /\ events' = events + 1
    /\ UNCHANGED <<gameVars, order_qty, logVars>>

\* if submitted: process_turn(order_qty, ship_mode); st.rerun()
Submit(z, change) ==
    /\ form_rendered
    /\ events + DrawCost(z, change) <= MaxEvents
    /\ process_turn(order_qty, ship_mode, z, change)
    /\ refused_entry' = {}
    /\ reset_from' = {}
    /\ events' = events + DrawCost(z, change)
    /\ UNCHANGED formVars

\* Mutant: the purchase does not look at the cash.
funds_not_checked(c) == TRUE

\* src/app.py:246
funds_sufficient(c) == c >= MARKET_INTEL_COST

\* Sidebar button, shown while market_intel is false (src/app.py:242-254).
BuyIntel ==
    /\ ~market_intel
    /\ events < MaxEvents
    /\ events' = events + 1
    /\ IF funds_sufficient(cash)
       THEN /\ cash' = cash - MARKET_INTEL_COST
            /\ market_intel' = TRUE
            /\ intel_week' = week
       ELSE UNCHANGED <<cash, market_intel, intel_week>>
    /\ UNCHANGED <<week, inventory, market_price, sea_lead_time_base,
                   game_over, kpi_score, upstream_congestion, history,
                   pending_orders, last_week_metrics, formVars,
                   enqueued_total, arrivals_log>>
    /\ refused_entry' = {}
    /\ reset_from' = {}

\* What is remembered of the state a reset overwrites.
StateSummary ==
    [week |-> week, market_intel |-> market_intel, game_over |-> game_over,
     upstream_congestion |-> upstream_congestion,
     sea_lead_time_base |-> sea_lead_time_base,
     pending |-> Len(pending_orders), cash |-> cash]

\* Sidebar reset button (src/app.py:257-259).
Reset ==
    /\ events < MaxEvents
    /\ init_game
    /\ refused_entry' = {}
    /\ reset_from' = {StateSummary}
    /\ events' = events + 1
    /\ UNCHANGED formVars

\* "Play Again" on the game-over screen (src/app.py:286-288).
PlayAgain ==
    /\ game_over
    /\ events < MaxEvents
    /\ init_game
    /\ refused_entry' = {}
    /\ reset_from' = {StateSummary}
    /\ events' = events + 1
    /\ UNCHANGED formVars

Next ==
    \/ \E q \in QtyEntries : EnterQty(q)
    \/ \E m \in ShipModes : SelectMode(m)
    \/ \E z \in NormalDraws, change \in PriceChanges : Submit(z, change)
    \/ BuyIntel
    \/ Reset
    \/ PlayAgain

Spec == Init /\ [][Next]_vars

(***************************************************************************)
(* The price walk.  The same session, played with the form's defaults and  *)
(* the mean demand for the first MaxWalkWeeks weeks, every step of the     *)
(* walk allowed in every turn; the sidebar buttons as above.               *)
(***************************************************************************)
WalkSubmit(change) ==
    /\ form_rendered
    /\ week <= MaxWalkWeeks
    /\ process_turn(order_qty, ship_mode, 20, change)
    /\ refused_entry' = {}
    /\ reset_from' = {}
    /\ UNCHANGED <<formVars, events>>

WalkNext ==
    \/ \E change \in PriceChanges : WalkSubmit(change)
    \/ BuyIntel
    \/ Reset

SpecWalk == Init /\ [][WalkNext]_vars

(***************************************************************************)
(* The player who keeps playing: the form is left as it is and, while it   *)
(* is on the page, its submit button is eventually clicked; the sidebar    *)
(* buttons and Play Again as above.                                        *)
(***************************************************************************)
LiveNext ==
    \/ \E z \in NormalDraws, change \in PriceChanges : Submit(z, change)
    \/ BuyIntel
    \/ Reset
    \/ PlayAgain

KeepSubmitting ==
    WF_vars(\E z \in NormalDraws, change \in PriceChanges : Submit(z, change))

LiveSpec == Init /\ [][LiveNext]_vars /\ KeepSubmitting

(***************************************************************************)
(* Properties.  A record of history is read with the keys of the source;   *)
(* the value a record's turn started from is the previous record's, or the *)
(* initial one for the first record.                                       *)
(***************************************************************************)
Turns == 1..Len(history)

PrevInv(k) == IF k = 1 THEN INITIAL_INVENTORY ELSE history[k - 1]["Ending Inv"]
PrevCash(k) == IF k = 1 THEN INITIAL_CASH ELSE history[k - 1]["Cash"]
PrevKpi(k) == IF k = 1 THEN KPI_START ELSE history[k - 1]["KPI Score"]

RECURSIVE TotalOrdered(_)
TotalOrdered(k) ==
    IF k = 0 THEN 0 ELSE history[k]["Order Qty"] + TotalOrdered(k - 1)

\* Lead time of the order of turn t, told from the decisions on record: air is
\* 1; sea is the base (2 before week 12, 3 from week 12 on) plus 1 when the
\* order of turn t-1 exceeded the upstream capacity.
CongestionAt(t) == t > 1 /\ history[t - 1]["Order Qty"] > UPSTREAM_CAPACITY

LeadTimeAt(t) ==
    IF history[t]["Ship Mode"] = "Air" THEN 1
    ELSE (IF t >= 12 THEN 3 ELSE 2) + (IF CongestionAt(t) THEN 1 ELSE 0)

\* Sum of the quantities ordered in turns 1..t that are due in week w.
RECURSIVE DueIn(_, _)
DueIn(w, t) ==
    IF t = 0 THEN 0
    ELSE (IF t + LeadTimeAt(t) = w THEN history[t]["Order Qty"] ELSE 0)
         + DueIn(w, t - 1)

\* The orders of turns 1..t that are due in week w or later, oldest first.
RECURSIVE DueFrom(_, _)
DueFrom(w, t) ==
    IF t = 0 THEN <<>>
    ELSE IF history[t]["Order Qty"] > 0 /\ t + LeadTimeAt(t) >= w
         THEN Append(DueFrom(w, t - 1),
                     [arrival_week |-> t + LeadTimeAt(t),
                      qty |-> history[t]["Order Qty"]])
         ELSE DueFrom(w, t - 1)

\* C1 as stated: once the game is over, the total quantity ever appended to
\* pending_orders equals the total of the arrivals of all processed turns.
C1_AllEnqueuedArrived ==
    game_over => enqueued_total = SumSeq(arrivals_log)

\* C1 amended: the total quantity appended to pending_orders (the sum of the
\* order quantities on record) equals the arrivals of the processed turns plus
\* the quantities still pending; at game over what is still pending is due
\* after the last week and never arrives.
C1_LedgerConservation ==
    /\ enqueued_total = TotalOrdered(Len(history))
    /\ enqueued_total = SumSeq(arrivals_log) + SumQty(pending_orders)
    /\ game_over =>
          \A i \in 1..Len(pending_orders) :
              pending_orders[i].arrival_week > MAX_WEEKS

C1_Witness ==
    /\ game_over
    /\ pending_orders # <<>>
    /\ SumSeq(arrivals_log) > 0

\* C2: the arrivals of every processed week w are the quantities of exactly
\* the orders of earlier weeks t with t + leadTime(t) = w; they are in that
\* week's available inventory before its sales are computed; pending_orders
\* holds exactly the orders not yet due, so each is counted once.
C2_ArrivalTiming ==
    /\ \A w \in Turns :
          /\ arrivals_log[w] = DueIn(w, w - 1)
          /\ history[w]["Sales"] =
                 Min(history[w]["Demand"], PrevInv(w) + DueIn(w, w - 1))
    /\ pending_orders = DueFrom(week, Len(history))

C2_Witness ==
    \E w \in Turns : \E t \in 1..(w - 1) :
        /\ history[t]["Ship Mode"] = "Sea"
        /\ CongestionAt(t)
        /\ t + LeadTimeAt(t) = w
        /\ arrivals_log[w] >= history[t]["Order Qty"]
        /\ history[t]["Order Qty"] > 0

\* C3: in every turn sales = min(demand, inventory_prev + arrivals), missed
\* sales = demand - sales >= 0, ending inventory = inventory_prev + arrivals
\* - sales is what is stored; inventory is never negative.
C3_InventoryConservation ==
    /\ \A k \in Turns :
          LET r == history[k]
              available == PrevInv(k) + arrivals_log[k]
          IN  /\ r["Demand"] >= 0
              /\ r["Sales"] = Min(r["Demand"], available)
              /\ r["Missed Sales"] = r["Demand"] - r["Sales"]
              /\ r["Missed Sales"] >= 0
              /\ r["Ending Inv"] = available - r["Sales"]
    /\ inventory = PrevInv(Len(history) + 1)
    /\ inventory >= 0

C3_Witness ==
    /\ \E k \in Turns : history[k]["Missed Sales"] > 0
    /\ \E k \in Turns :
          arrivals_log[k] > 0 /\ history[k]["Missed Sales"] = 0

\* C4 as stated: every record's Cash minus the previous record's Cash
\* (INITIAL_CASH for the first) equals the record's Net Profit.
C4_CashDeltaIsNetProfit ==
    \A k \in Turns :
        history[k]["Cash"] - PrevCash(k) = history[k]["Net Profit"]

\* C4 amended: cash changes in a turn's settlement and in the market-intel
\* purchase; a record's Cash minus the previous record's Cash equals its Net
\* Profit, less MARKET_INTEL_COST when the intel was bought since the
\* previous record (while week had the record's value).
C4_CashAccounting ==
    /\ \A k \in Turns :
          history[k]["Cash"] - PrevCash(k) =
              history[k]["Net Profit"]
                  - (IF intel_week = k THEN MARKET_INTEL_COST ELSE 0)
    /\ cash = PrevCash(Len(history) + 1)
                  - (IF intel_week = week THEN MARKET_INTEL_COST ELSE 0)

C4_Witness ==
    /\ Len(history) >= 3
    /\ intel_week = 2
    /\ history[2]["Cash"] - history[1]["Cash"]
           = history[2]["Net Profit"] - MARKET_INTEL_COST
    /\ history[3]["Cash"] - history[2]["Cash"] = history[3]["Net Profit"]

\* C5: kpi_score stays in [0, 100]; every turn moves it to
\* max(0, min(100, old - 5)) when the turn missed sales and to
\* max(0, min(100, old + 2)) otherwise; between turns it keeps the value the
\* last turn left (KPI_START after init_game).
C5_KpiBoundsAndStep ==
    /\ kpi_score \in 0..100
    /\ kpi_score = PrevKpi(Len(history) + 1)
    /\ \A k \in Turns :
          history[k]["KPI Score"] =
              IF history[k]["Missed Sales"] > 0
              THEN Max(0, Min(100, PrevKpi(k) - 5))
              ELSE Max(0, Min(100, PrevKpi(k) + 2))

C5_Witness ==
    /\ \E k \in Turns :
          history[k]["Missed Sales"] > 0 /\ history[k]["KPI Score"] = PrevKpi(k) - 5
    /\ \E k \in Turns :
          history[k]["Missed Sales"] = 0 /\ history[k]["KPI Score"] = PrevKpi(k) + 2
    /\ \E k \in Turns :
          history[k]["Missed Sales"] = 0 /\ PrevKpi(k) = 100
              /\ history[k]["KPI Score"] = 100
    /\ market_intel

\* C6: after a turn upstream_congestion is true iff that turn's order quantity
\* exceeded UPSTREAM_CAPACITY, whatever the shipping mode; the order a turn
\* places is due 1 week later by air and sea_lead_time_base weeks later by
\* sea, plus 1 only if the turn before it ordered more than the capacity.
C6_CongestionCausality ==
    LET n == Len(history)
    IN  /\ upstream_congestion
              = (n >= 1 /\ history[n]["Order Qty"] > UPSTREAM_CAPACITY)
        /\ (n >= 1 /\ history[n]["Order Qty"] > 0) =>
              /\ pending_orders # <<>>
              /\ pending_orders[Len(pending_orders)].qty = history[n]["Order Qty"]
              /\ pending_orders[Len(pending_orders)].arrival_week - n =
                    IF history[n]["Ship Mode"] = "Air" THEN 1
                    ELSE IF n >= 2 /\ history[n - 1]["Order Qty"] > 60
                         THEN sea_lead_time_base + 1
                         ELSE sea_lead_time_base

\* Order 80 in turn 1, then 20 by sea in turns 2 and 3: the order of turn 2
\* is due in week 2 + 2 + 1, the order of turn 3 in week 3 + 2.
C6_Witness ==
    /\ Len(history) = 3
    /\ history[1]["Order Qty"] = 80
    /\ history[2]["Order Qty"] = 20 /\ history[2]["Ship Mode"] = "Sea"
    /\ history[3]["Order Qty"] = 20 /\ history[3]["Ship Mode"] = "Sea"
    /\ ~upstream_congestion
    /\ pending_orders = <<[arrival_week |-> 5, qty |-> 20],
                          [arrival_week |-> 5, qty |-> 20]>>

\* C7: week never exceeds MAX_WEEKS + 1; a game that is over stays exactly
\* as the turn of week MAX_WEEKS left it (no decision is processed in it):
\* week, inventory, kpi_score, pending_orders, history, and cash but for a
\* market-intel purchase made on the game-over screen's sidebar.
C7_TerminalGating ==
    /\ week <= MAX_WEEKS + 1
    /\ game_over =>
          /\ week = MAX_WEEKS + 1
          /\ Len(history) = MAX_WEEKS
          /\ last_week_metrics = <<history[MAX_WEEKS]>>
          /\ history[MAX_WEEKS]["Week"] = MAX_WEEKS
          /\ inventory = history[MAX_WEEKS]["Ending Inv"]
          /\ kpi_score = history[MAX_WEEKS]["KPI Score"]
          /\ cash = history[MAX_WEEKS]["Cash"]
                       - (IF intel_week = week THEN MARKET_INTEL_COST ELSE 0)
          /\ pending_orders = DueFrom(MAX_WEEKS + 1, MAX_WEEKS)

C7_Witness ==
    /\ game_over
    /\ week = MAX_WEEKS + 1
    /\ events = MaxEvents

\* C8: an order quantity below 0 or above 500 never reaches a turn: the
\* number input refuses the entry, which leaves the game state and the form
\* untouched, and every turn on record was run with a quantity in [0, 500].
C8_InvalidDecisionRejected ==
    /\ [](/\ order_qty \in 0..500
          /\ \A k \in Turns : history[k]["Order Qty"] \in 0..500)
    /\ [][refused_entry' # {} => UNCHANGED <<gameVars, formVars, logVars>>]_vars

C8_Witness ==
    /\ Len(history) >= 1
    /\ refused_entry # {}
    /\ \A q \in refused_entry : q < 0 \/ q > 500

\* C9 as stated: from the initial state, order 20 with demand 20 gives sales
\* 20, missed sales 0, ending inventory 30 and cash 10650.
C9_FirstTurnAsStated ==
    (/\ Len(history) >= 1
     /\ intel_week # 1
     /\ history[1]["Order Qty"] = 20
     /\ history[1]["Demand"] = 20)
    => /\ history[1]["Sales"] = 20
       /\ history[1]["Missed Sales"] = 0
       /\ history[1]["Ending Inv"] = 30
       /\ history[1]["Cash"] = 10650

\* C9 amended: from the initial state, order 20 with demand 20 gives sales
\* 20, missed sales 0, ending inventory 30 and cash
\* 10000 + (2000 - 20 * (60 + freight) - 30 * 5 - 0): 10610 by sea, 10350 by air.
C9_FirstTurn ==
    (/\ Len(history) >= 1
     /\ intel_week # 1
     /\ history[1]["Order Qty"] = 20
     /\ history[1]["Demand"] = 20)
    => /\ history[1]["Sales"] = 20
       /\ history[1]["Missed Sales"] = 0
       /\ history[1]["Ending Inv"] = 30
       /\ history[1]["Cash"] =
              IF history[1]["Ship Mode"] = "Sea" THEN 10610 ELSE 10350

C9_Witness ==
    /\ Len(history) = 1
    /\ history[1]["Order Qty"] = 20
    /\ history[1]["Demand"] = 20
    /\ history[1]["Ship Mode"] = "Sea"
    /\ cash = 10610

\* C10: the fine of every turn is 2000 if the score after the turn's KPI
\* update is below 50, else 500 if it is below 70, else 0, and it is
\* subtracted from the turn's net profit.
C10_FineOnPostUpdateScore ==
    \A k \in Turns :
        LET r == history[k]
        IN  /\ r["KPI Fine"] =
                  IF r["KPI Score"] < 50 THEN 2000
                  ELSE IF r["KPI Score"] < 70 THEN 500 ELSE 0
            /\ r["Net Profit"] =
                  r["Revenue"] - r["Procurement Cost"] - r["Holding Cost"]
                      - r["Shortage Penalty"] - r["Overflow Penalty"]
                      - r["KPI Fine"]

\* A turn that moves the score from 50 to 45 and is fined 2000.
C10_Witness ==
    \E k \in Turns :
        /\ PrevKpi(k) = 50
        /\ history[k]["KPI Score"] = 45
        /\ history[k]["KPI Fine"] = 2000

\* --- C11 ---
\* C11: in every reachable state the history holds week - 1 records and its
\* k-th record carries Week = k; every processed turn advances the week by
\* exactly 1 and appends exactly one record, whose Week is the week the turn
\* started in, leaving the earlier records as they were; the history changes
\* in no other way than by such an append or by being emptied by a reset.
C11_OneRecordPerTurn ==
    /\ [](/\ Len(history) = week - 1
          /\ \A k \in Turns : history[k]["Week"] = k)
    /\ [][Len(arrivals_log') = Len(arrivals_log) + 1 =>
              /\ week' = week + 1
              /\ Len(history') = Len(history) + 1
              /\ SubSeq(history', 1, Len(history)) = history
              /\ history'[Len(history')]["Week"] = week]_vars
    /\ [][history' # history =>
              \/ Len(arrivals_log') = Len(arrivals_log) + 1
              \/ history' = <<>> /\ week' = 1]_vars

\* Three turns processed: week 4, three records numbered 1, 2, 3, the
\* second one a non-default decision.
C11_Witness ==
    /\ week = 4
    /\ Len(history) = 3
    /\ history[3]["Week"] = 3
    /\ history[2]["Order Qty"] = 80

\* --- C12 ---
\* C12: whatever state a reset is clicked in, the state right after it is
\* the initial one: week 1, cash 10000, inventory 50, market price 60, sea
\* lead time 2, KPI 100, no congestion, no market intel, game not over,
\* empty history and empty pending orders.
C12_ResetRestoresInitialState ==
    reset_from # {} =>
        /\ week = 1
        /\ cash = 10000
        /\ inventory = 50
        /\ market_price = 60
        /\ sea_lead_time_base = 2
        /\ kpi_score = 100
        /\ upstream_congestion = FALSE
        /\ market_intel = FALSE
        /\ game_over = FALSE
        /\ history = <<>>
        /\ pending_orders = <<>>
        /\ last_week_metrics = <<>>

\* A reset clicked mid-game, after the week-12 event, with the market intel
\* bought and shipments still on their way.
C12_Witness ==
    \E s \in reset_from :
        /\ s.week >= 13
        /\ s.game_over = FALSE
        /\ s.sea_lead_time_base = 3
        /\ s.market_intel = TRUE
        /\ s.pending > 0
        /\ s.cash # INITIAL_CASH

\* --- C13 ---
\* C13: every record satisfies the settlement formula: Revenue = Sales * 100,
\* Holding Cost = Ending Inv * 5, Shortage Penalty = Missed Sales * 10,
\* Overflow Penalty = max(0, Ending Inv - 120) * 50, and Net Profit =
\* Revenue - Procurement Cost - Holding Cost - Shortage Penalty
\* - Overflow Penalty - KPI Fine.
C13_SettlementFormula ==
    \A k \in Turns :
        LET r == history[k]
        IN  /\ r["Revenue"] = r["Sales"] * 100
            /\ r["Holding Cost"] = r["Ending Inv"] * 5
            /\ r["Shortage Penalty"] = r["Missed Sales"] * 10
            /\ r["Overflow Penalty"] = Max(0, r["Ending Inv"] - 120) * 50
            /\ r["Net Profit"] =
                  r["Revenue"] - r["Procurement Cost"] - r["Holding Cost"]
                      - r["Shortage Penalty"] - r["Overflow Penalty"]
                      - r["KPI Fine"]
            /\ (r["Ending Inv"] = 130 => r["Overflow Penalty"] = 500)
            /\ (r["Ending Inv"] = 120 => r["Overflow Penalty"] = 0)

\* A week that ends with 130 units in the warehouse and is charged 500.
C13_Witness ==
    \E k \in Turns :
        /\ history[k]["Ending Inv"] = 130
        /\ history[k]["Overflow Penalty"] = 500

\* --- C14 ---
\* Market price at the start of turn k.
PrevPrice(k) ==
    IF k = 1 THEN INITIAL_MARKET_PRICE ELSE history[k - 1]["Market Price"]

\* C14: the procurement cost of every turn is the ordered quantity times the
\* market price the turn started with plus the freight (2 by sea, 15 by
\* air), and it is charged in that same turn; the price the turn's walk
\* produces is the one its record shows and the one the next turn starts
\* with.
C14_ProcurementAtPreWalkPrice ==
    /\ \A k \in Turns :
          LET r == history[k]
          IN  /\ r["Procurement Cost"] =
                    r["Order Qty"]
                        * (PrevPrice(k) + (IF r["Ship Mode"] = "Sea" THEN 2 ELSE 15))
              /\ r["Revenue"] - r["Net Profit"] >= r["Procurement Cost"]
    /\ market_price = PrevPrice(Len(history) + 1)

\* A turn whose walk moved the price while it bought at the old one,
\* followed by a turn that bought at the new one.
C14_Witness ==
    \E k \in Turns :
        /\ k + 1 \in Turns
        /\ history[k]["Market Price"] # PrevPrice(k)
        /\ history[k]["Order Qty"] > 0
        /\ history[k]["Procurement Cost"]
               = history[k]["Order Qty"] * (PrevPrice(k) + 2)
        /\ history[k + 1]["Order Qty"] > 0
        /\ history[k + 1]["Procurement Cost"]
               = history[k + 1]["Order Qty"] * (history[k]["Market Price"] + 2)

\* --- C15 ---
\* C15: the market price is within 40..90 in every reachable state; the
\* price a turn leaves is max(40, min(90, old + d)) for a step d of -5, 0
\* or 5, so it differs from the price the turn started with by at most 5;
\* and the price changes only in a processed turn or by a reset to 60.
C15_PriceBand ==
    /\ [](/\ market_price \in 40..90
          /\ market_price = PrevPrice(Len(history) + 1)
          /\ \A k \in Turns :
                LET old == PrevPrice(k)
                    new == history[k]["Market Price"]
                IN  /\ \E d \in {-5, 0, 5} : new = Max(40, Min(90, old + d))
                    /\ new - old \in -5..5)
    /\ [][market_price' # market_price =>
              \/ /\ Len(arrivals_log') = Len(arrivals_log) + 1
                 /\ market_price' - market_price \in {-5, 5}
              \/ reset_from' # {} /\ market_price' = 60]_vars

\* The walk has reached the top of the band and a further turn has left
\* the price there.
C15_Witness ==
    \E k \in Turns :
        /\ PrevPrice(k) = 90
        /\ history[k]["Market Price"] = 90

\* --- C16 ---
\* C16: the sea lead time base is 2 while the week is at most 12 and 3
\* afterwards, and it never decreases except by a reset; the shock is in
\* force for the order of week 12 itself, whose sea shipment is due in week
\* 15 (16 under congestion), while the sea shipment of week 11 is due in
\* week 13 (14 under congestion); running check_events a second time for
\* the same week leaves the lead time it left the first time.
C16_LeadTimeShock ==
    /\ [](/\ sea_lead_time_base = (IF week <= 12 THEN 2 ELSE 3)
          /\ check_events(week, check_events(week, sea_lead_time_base))
                 = check_events(week, sea_lead_time_base)
          /\ \A t \in {11, 12} :
                (/\ Len(history) = t
                 /\ history[t]["Order Qty"] > 0
                 /\ history[t]["Ship Mode"] = "Sea") =>
                    pending_orders[Len(pending_orders)].arrival_week =
                        t + (IF t = 12 THEN 3 ELSE 2)
                          + (IF history[t - 1]["Order Qty"] > 60 THEN 1 ELSE 0))
    /\ [][sea_lead_time_base' < sea_lead_time_base => reset_from' # {}]_vars

\* The sea order of week 12, placed under congestion, is due in week 16.
C16_Witness ==
    /\ Len(history) = 12
    /\ history[12]["Ship Mode"] = "Sea"
    /\ history[12]["Order Qty"] > 0
    /\ history[11]["Order Qty"] > 60
    /\ sea_lead_time_base = 3
    /\ pending_orders[Len(pending_orders)].arrival_week = 16

\* --- C17 ---
\* C17: in every reachable state the quantity ever shipped equals the
\* quantity received so far plus the quantity still on its way, and every
\* shipment still on its way carries a positive quantity and is due no
\* earlier than the current week and no later than three weeks after it.
C17_PendingWellFormed ==
    /\ enqueued_total = SumSeq(arrivals_log) + SumQty(pending_orders)
    /\ \A i \in 1..Len(pending_orders) :
          /\ pending_orders[i].qty > 0
          /\ week <= pending_orders[i].arrival_week
          /\ pending_orders[i].arrival_week <= week + 3

\* Goods have been received, several shipments are on their way and one of
\* them is due three weeks after the current week.
C17_Witness ==
    /\ SumSeq(arrivals_log) > 0
    /\ Len(pending_orders) >= 2
    /\ \E i \in 1..Len(pending_orders) :
          pending_orders[i].arrival_week = week + 3

\* --- C18 ---
RECURSIVE TotalNetProfit(_)
TotalNetProfit(k) ==
    IF k = 0 THEN 0 ELSE history[k]["Net Profit"] + TotalNetProfit(k - 1)

\* A step that processes a turn.
TurnStep == Len(arrivals_log') = Len(arrivals_log) + 1

\* C18: the cash is the initial cash plus the net profit of every processed
\* turn, minus 500 if the market intel has been bought; the purchase
\* happens only with at least 500 in cash and the intel not yet bought,
\* takes exactly 500 and changes no other game variable; the cash changes
\* only in a turn, a purchase or a reset, and the intel flag is cleared
\* only by a reset, so it is bought at most once per session.
C18_CashStewardship ==
    /\ [](cash = INITIAL_CASH + TotalNetProfit(Len(history))
                     - (IF market_intel THEN 500 ELSE 0))
    /\ [][(~market_intel /\ market_intel') =>
              /\ cash >= 500
              /\ cash' = cash - 500
              /\ UNCHANGED <<week, inventory, market_price, sea_lead_time_base,
                             game_over, kpi_score, upstream_congestion,
                             history, pending_orders, last_week_metrics>>]_vars
    /\ [][cash' # cash =>
              \/ TurnStep
              \/ reset_from' # {}
              \/ ~market_intel /\ market_intel']_vars
    /\ [][(market_intel /\ ~market_intel') => reset_from' # {}]_vars

\* The intel was bought in week 2 and turns have been played since.
C18_Witness ==
    /\ market_intel
    /\ intel_week = 2
    /\ Len(history) >= 3
    /\ cash = INITIAL_CASH + TotalNetProfit(Len(history)) - 500

\* --- C19 ---
\* C19: whenever a decision with a positive quantity is submitted, the
\* lead time the order form showed before the submit (current_lt) is the
\* lead time process_turn applies to the order (its arrival_week minus the
\* week of the turn).
C19_DisplayedLeadTimeApplied ==
    [][(TurnStep /\ order_qty > 0) =>
           pending_orders'[Len(pending_orders')].arrival_week - week
               = current_lt]_vars

\* The form of week 12 with a sea order in it: it shows 2 weeks, and the
\* turn, which runs check_events first, will apply 3.
C19_Witness ==
    /\ week = 12
    /\ form_rendered
    /\ ship_mode = "sea"
    /\ order_qty = 20
    /\ ~upstream_congestion
    /\ current_lt = 2
    /\ lead_time_of(ship_mode, check_events(week, sea_lead_time_base),
                    upstream_congestion) = 3

\* --- C20 ---
\* C20: in every reachable state game_over is true exactly if the week is
\* past MAX_WEEKS, which is exactly when 20 decisions have been committed;
\* a player who keeps submitting eventually reaches game_over unless a
\* reset is clicked first, and game_over stays true until a reset.
C20_Termination ==
    /\ [](game_over <=> week > MAX_WEEKS)
    /\ [](game_over <=> Len(history) = 20)
    /\ (~game_over ~> (game_over \/ reset_from # {}))
    /\ [][(game_over /\ ~game_over') => reset_from' # {}]_vars

\* The twentieth decision has been committed and the game is over.
C20_Witness ==
    /\ game_over
    /\ week = 21
    /\ Len(history) = 20
    /\ history[20]["Week"] = 20

====
